---- MODULE Spec2Model ----
(***************************************************************************)
(* Model of expo-ai-kit's client-side conversation memory                  *)
(* (src/src/memory.ts): the ChatMemoryManager class and buildPrompt, and   *)
(* of the JavaScript entry points isAvailable and sendMessage that sit in  *)
(* front of the native module.                                             *)
(*                                                                         *)
(* Text is modelled as a sequence of one-character strings, so that        *)
(* prompt serialisation, joining and splitting on the newline character    *)
(* are computed character by character.  The JavaScript value `undefined`  *)
(* of `string | undefined` is the record Undefined; a string s is Str(s).  *)
(***************************************************************************)
EXTENDS Integers, Sequences, FiniteSets, TLC

VARIABLES
    messages,      \* ChatMemoryManager.messages  (memory.ts:118)
    systemPrompt,  \* ChatMemoryManager.systemPrompt (memory.ts:121)
    maxTurns,      \* ChatMemoryManager.maxTurns (memory.ts:124)
    lastOp,        \* the call that produced this state, with its arguments
    ret,           \* what that call returned
    evicted,       \* how many stored messages that call removed
    platform,      \* Platform.OS of react-native
    nativeCalls,   \* the calls that call made to the native module, in order
    streamIdCounter,   \* how many stream session ids have been generated
    streams,           \* per session id: the JavaScript side of the stream
    nativeQueue,       \* native AsyncFunction calls not yet run
    activeStreamJobs,  \* activeStreamJobs (Kotlin) / activeStreamTasks (Swift)
    jobs,              \* per session id: the native streaming job
    eventQueue         \* onStreamToken events sent, not yet handed to JavaScript

vars == <<messages, systemPrompt, maxTurns, lastOp, ret, evicted,
          platform, nativeCalls, streamIdCounter, streams, nativeQueue,
          activeStreamJobs, jobs, eventQueue>>

storeVars == <<messages, systemPrompt, maxTurns>>

streamVars == <<streamIdCounter, streams, nativeQueue, activeStreamJobs,
                jobs, eventQueue>>

apiVars == <<platform, nativeCalls, streamVars>>

-----------------------------------------------------------------------------
(* Bounds of the model *)

\* Spec: an append is taken only if at most MaxMsgs messages are stored
\* when it returns
MaxMsgs == 4

\* SpecText: the same cap for the character-level specification
MaxTextMsgs == 2

\* SpecCopy: the same cap where callers also mutate the arrays they are given
MaxCopyMsgs == 3

\* SpecDefault: the same cap for a store built without a maxTurns option
MaxDefaultMsgs == 11

\* SpecSend: the longest messages array passed to sendMessage
MaxSendMsgs == 2

\* SpecTrim: the same cap for the store without its read accessors
MaxTrimMsgs == 4

\* turn limits passed by callers range over -1..MaxTurnsArg
MaxTurnsArg == 2

\* SpecStream: how many streams are started
MaxStreams == 2

\* SpecStream, SpecStop: how many chunks the generators yield, all streams
\* together
MaxChunks == 1

\* SpecStop: how many streams are started
MaxStopStreams == 1

\* SpecStop: how many times a caller calls stop()
MaxStops == 1

-----------------------------------------------------------------------------
(* Values *)

DEFAULT_MAX_TURNS == 10

NL == "\n"

\* texts callers pass under Spec: the empty text and a plain one
Contents == { <<>>, <<"a">> }

\* texts callers pass under SpecText: also one holding a newline character
TextContents == { <<>>, <<"a">>, <<"b", NL>> }

Undefined == [defined |-> FALSE, text |-> <<>>]

Str(s) == [defined |-> TRUE, text |-> s]

\* values of type string | undefined over the texts C
Opt(C) == {Undefined} \cup {Str(c) : c \in C}

LLMRole == {"system", "user", "assistant"}

LLMMessage(r, c) == [role |-> r, content |-> c]

TurnLimits == -1..MaxTurnsArg

-----------------------------------------------------------------------------
(* Array helpers of the JavaScript runtime *)

\* Array.prototype.slice(start) on a 0-based start index
Slice(s, start) == SubSeq(s, start + 1, Len(s))

\* messages.filter((m) => m.role === 'user')
RECURSIVE FilterUser(_)
FilterUser(s) ==
    IF s = <<>> THEN <<>>
    ELSE (IF Head(s).role = "user" THEN <<Head(s)>> ELSE <<>>)
         \o FilterUser(Tail(s))

-----------------------------------------------------------------------------
(* ChatMemoryManager: private trimHistory *)

\* the forEach loop without the test of the role: the index of every message
userMessageIndicesAnyRole(msgs, idx) ==
    [i \in 1..(Len(msgs) - idx) |-> idx + i - 1]

\* the forEach loop of trimHistory: the 0-based indices of the user
\* messages, in order, scanning from 0-based position idx
RECURSIVE userMessageIndices(_, _)
userMessageIndices(msgs, idx) ==
    IF idx >= Len(msgs) THEN <<>>
    ELSE (IF msgs[idx + 1].role = "user" THEN <<idx>> ELSE <<>>)
         \o userMessageIndices(msgs, idx + 1)

\* the cut index without the while loop: right after the user message
cutIndexNoLoop(msgs, i) == i

\* the while loop without the test of the role: it runs to the end of the
\* array
cutIndexSkipsAll(msgs, i) == IF i < Len(msgs) THEN Len(msgs) ELSE i

\* the while loop of trimHistory: advance over assistant messages
RECURSIVE cutIndex(_, _)
cutIndex(msgs, i) ==
    IF i < Len(msgs) /\ msgs[i + 1].role = "assistant"
    THEN cutIndex(msgs, i + 1)
    ELSE i

\* trimHistory removing a single turn, the oldest, per call when the history
\* is over the limit
trimHistoryOneTurnPerCall(msgs, limit) ==
    LET indices == userMessageIndices(msgs, 0)
        turnsToRemove == Len(indices) - limit
    IN  IF turnsToRemove <= 0 THEN msgs
        ELSE IF turnsToRemove - 1 >= Len(indices) THEN Slice(msgs, 0)
        ELSE LET lastTurnToRemoveIdx == indices[1]
             IN  Slice(msgs, cutIndex(msgs, lastTurnToRemoveIdx + 1))

\* trimHistory holding the number of messages, not of user messages,
\* against the limit
trimHistoryCountsMessages(msgs, limit) ==
    LET indices == userMessageIndices(msgs, 0)
        turnsToRemove == Len(msgs) - limit
    IN  IF turnsToRemove <= 0 THEN msgs
        ELSE IF turnsToRemove - 1 >= Len(indices) THEN Slice(msgs, 0)
        ELSE LET lastTurnToRemoveIdx == indices[turnsToRemove]
             IN  Slice(msgs, cutIndex(msgs, lastTurnToRemoveIdx + 1))

\* trimHistory removing one turn too many (turnsToRemove one too large)
trimHistoryRemovesOneMore(msgs, limit) ==
    LET indices == userMessageIndices(msgs, 0)
        turnsToRemove == Len(indices) - limit + 1
    IN  IF turnsToRemove <= 0 THEN msgs
        ELSE IF turnsToRemove - 1 >= Len(indices) THEN Slice(msgs, 0)
        ELSE LET lastTurnToRemoveIdx == indices[turnsToRemove]
             IN  Slice(msgs, cutIndex(msgs, lastTurnToRemoveIdx + 1))

\* trimHistory stepping over at most one assistant message (`if` for
\* `while`)
trimHistoryStopsAtFirstReply(msgs, limit) ==
    LET indices == userMessageIndices(msgs, 0)
        turnsToRemove == Len(indices) - limit
    IN  IF turnsToRemove <= 0 THEN msgs
        ELSE IF turnsToRemove - 1 >= Len(indices) THEN Slice(msgs, 0)
        ELSE LET lastTurnToRemoveIdx == indices[turnsToRemove]
                 next == lastTurnToRemoveIdx + 1
             IN  Slice(msgs,
                       IF next < Len(msgs) /\ msgs[next + 1].role = "assistant"
                       THEN next + 1 ELSE next)

\* trimHistory keeping the messages before the cut instead of those after it
\* (slice(0, cutIndex) for slice(cutIndex))
trimHistoryKeepsOldest(msgs, limit) ==
    LET indices == userMessageIndices(msgs, 0)
        turnsToRemove == Len(indices) - limit
    IN  IF turnsToRemove <= 0 THEN msgs
        ELSE IF turnsToRemove - 1 >= Len(indices) THEN Slice(msgs, 0)
        ELSE LET lastTurnToRemoveIdx == indices[turnsToRemove]
             IN  SubSeq(msgs, 1, cutIndex(msgs, lastTurnToRemoveIdx + 1))

\* trimHistory removing one turn too few (turnsToRemove off by one)
trimHistoryOffByOne(msgs, limit) ==
    LET indices == userMessageIndices(msgs, 0)
        turnsToRemove == Len(indices) - limit - 1
    IN  IF turnsToRemove <= 0 THEN msgs
        ELSE IF turnsToRemove - 1 >= Len(indices) THEN Slice(msgs, 0)
        ELSE LET lastTurnToRemoveIdx == indices[turnsToRemove]
             IN  Slice(msgs, cutIndex(msgs, lastTurnToRemoveIdx + 1))

\* trimHistory cutting right after the user message, without the loop over
\* the assistant messages that follow it
trimHistoryCutsAfterUser(msgs, limit) ==
    LET indices == userMessageIndices(msgs, 0)
        turnsToRemove == Len(indices) - limit
    IN  IF turnsToRemove <= 0 THEN msgs
        ELSE IF turnsToRemove - 1 >= Len(indices) THEN Slice(msgs, 0)
        ELSE LET lastTurnToRemoveIdx == indices[turnsToRemove]
             IN  Slice(msgs, lastTurnToRemoveIdx + 1)

\* trimHistory, as a function from (this.messages, this.maxTurns) to the
\* new this.messages.  userMessageIndices[turnsToRemove - 1] is undefined
\* when the index is past the end of the array (a limit below zero); then
\* cutIndex is NaN, the loop condition is false and slice(NaN) is slice(0).
trimHistory(msgs, limit) ==
    LET indices == userMessageIndices(msgs, 0)
        turnsToRemove == Len(indices) - limit
    IN  IF turnsToRemove <= 0 THEN msgs
        ELSE IF turnsToRemove - 1 >= Len(indices) THEN Slice(msgs, 0)
        ELSE LET lastTurnToRemoveIdx == indices[turnsToRemove]
             IN  Slice(msgs, cutIndex(msgs, lastTurnToRemoveIdx + 1))

-----------------------------------------------------------------------------
(* ChatMemoryManager: read accessors and buildPrompt *)

getTurnCount(msgs) == Len(FilterUser(msgs))

getMessages(msgs) == msgs

\* `if (this.systemPrompt)` is false for undefined and for the empty string
Truthy(p) == p.defined /\ p.text # <<>>

\* getAllMessages testing `this.systemPrompt !== undefined`
getAllMessagesChecksUndefined(msgs, prompt) ==
    (IF prompt.defined THEN <<LLMMessage("system", prompt.text)>> ELSE <<>>)
    \o msgs

getAllMessages(msgs, prompt) ==
    (IF Truthy(prompt) THEN <<LLMMessage("system", prompt.text)>> ELSE <<>>)
    \o msgs

roleLabels(r) ==
    CASE r = "system" -> <<"S", "Y", "S", "T", "E", "M">>
      [] r = "user" -> <<"U", "S", "E", "R">>
      [] r = "assistant" -> <<"A", "S", "S", "I", "S", "T", "A", "N", "T">>

\* the template literal without the space after the colon
RenderLineNoSpace(msg) == roleLabels(msg.role) \o <<":">> \o msg.content

\* the template literal `${roleLabels[msg.role]}: ${msg.content}`
RenderLine(msg) == roleLabels(msg.role) \o <<":", " ">> \o msg.content

\* Array.prototype.join(sep) on an array of strings
RECURSIVE Join(_, _)
Join(lines, sep) ==
    IF lines = <<>> THEN <<>>
    ELSE IF Len(lines) = 1 THEN lines[1]
    ELSE lines[1] \o sep \o Join(Tail(lines), sep)

\* buildPrompt ending every line, the last included, with a newline
buildPromptTrailingNewline(msgs) ==
    IF Len(msgs) = 0 THEN <<>>
    ELSE Join([i \in 1..Len(msgs) |-> RenderLine(msgs[i])], <<NL>>) \o <<NL>>

buildPrompt(msgs) ==
    IF Len(msgs) = 0 THEN <<>>
    ELSE Join([i \in 1..Len(msgs) |-> RenderLine(msgs[i])], <<NL>>)

getPrompt(msgs, prompt) == buildPrompt(getAllMessages(msgs, prompt))

\* getSnapshot counting every stored message as a turn
getSnapshotCountsAll(msgs, prompt, limit) ==
    [messages |-> getAllMessages(msgs, prompt),
     systemPrompt |-> prompt,
     turnCount |-> Len(msgs),
     maxTurns |-> limit]

getSnapshot(msgs, prompt, limit) ==
    [messages |-> getAllMessages(msgs, prompt),
     systemPrompt |-> prompt,
     turnCount |-> getTurnCount(msgs),
     maxTurns |-> limit]

\* String.prototype.split('\n'): the pieces between newline characters;
\* the empty string splits into one empty piece
RECURSIVE SplitFrom(_, _)
SplitFrom(s, cur) ==
    IF s = <<>> THEN <<cur>>
    ELSE IF Head(s) = NL THEN <<cur>> \o SplitFrom(Tail(s), <<>>)
    ELSE SplitFrom(Tail(s), Append(cur, Head(s)))

Split(s) == SplitFrom(s, <<>>)

-----------------------------------------------------------------------------
(* Observation of a call *)

Op(name) == [name |-> name, role |-> "none", content |-> <<>>,
             prompt |-> Undefined, n |-> 0]

\* shared tells whether the returned array is the very array object held in
\* this.messages; the accessors build a new array ([...this.messages], or
\* result = [] filled by push), so what they return is never shared
Void == [kind |-> "void", val |-> <<>>, shared |-> FALSE]

Returned(kind, v) == [kind |-> kind, val |-> v, shared |-> FALSE]

-----------------------------------------------------------------------------
(* Construction *)

\* the constructor with a default one above DEFAULT_MAX_TURNS
ConstructorDefaultOneMore(optMaxTurns, optSystemPrompt) ==
    /\ messages = <<>>
    /\ maxTurns = IF optMaxTurns = <<>> THEN DEFAULT_MAX_TURNS + 1
                  ELSE optMaxTurns[1]
    /\ systemPrompt = optSystemPrompt
    /\ lastOp = Op("constructor")
    /\ ret = Void
    /\ evicted = 0

\* new ChatMemoryManager(options): options.maxTurns ?? DEFAULT_MAX_TURNS
Constructor(optMaxTurns, optSystemPrompt) ==
    /\ messages = <<>>
    /\ maxTurns = IF optMaxTurns = <<>> THEN DEFAULT_MAX_TURNS
                  ELSE optMaxTurns[1]
    /\ systemPrompt = optSystemPrompt
    /\ lastOp = Op("constructor")
    /\ ret = Void
    /\ evicted = 0

\* options.maxTurns is absent (<<>>) or a number (<<n>>)
OptTurnLimits == {<<>>} \cup {<<n>> : n \in TurnLimits}

\* the session ids streamMessage can generate, in the order it generates them
SessionIds == 1..MaxStreams

\* a promise that has not been settled
Pending == [kind |-> "pending", val |-> <<>>, shared |-> FALSE]

\* the JavaScript side of a stream that has not been started: subscribed
\* tells that its listener is registered, arrived lists the events that
\* reached JavaScript carrying its session id, onToken the calls of its
\* onToken callback
NoStream ==
    [started |-> FALSE, subscribed |-> FALSE, stopped |-> FALSE,
     arrived |-> <<>>, onToken |-> <<>>,
     promise |-> [kind |-> "none", val |-> <<>>, shared |-> FALSE]]

\* a streaming job that has not been launched; late tells that a cancelled
\* job has sent the chunk it was handling when it was cancelled
NoJob ==
    [pc |-> "none", accumulatedText |-> <<>>, chunks |-> 0,
     cancelled |-> FALSE, late |-> FALSE]

\* the module is loaded and no stream has been started
NoStreams ==
    /\ streamIdCounter = 0
    /\ streams = [s \in SessionIds |-> NoStream]
    /\ nativeQueue = <<>>
    /\ activeStreamJobs = {}
    /\ jobs = [s \in SessionIds |-> NoJob]
    /\ eventQueue = <<>>

\* the store makes no native call and does not read Platform.OS
NoApi ==
    /\ platform = "ios"
    /\ nativeCalls = <<>>
    /\ NoStreams

Init ==
    /\ \E optMaxTurns \in OptTurnLimits, optSystemPrompt \in Opt(Contents) :
          Constructor(optMaxTurns, optSystemPrompt)
    /\ NoApi

InitText ==
    /\ \E optMaxTurns \in OptTurnLimits,
          optSystemPrompt \in Opt(TextContents) :
          Constructor(optMaxTurns, optSystemPrompt)
    /\ NoApi

\* new ChatMemoryManager() or new ChatMemoryManager({systemPrompt})
InitDefault ==
    /\ \E optSystemPrompt \in Opt(Contents) :
          Constructor(<<>>, optSystemPrompt)
    /\ NoApi

\* new ChatMemoryManager({maxTurns: L}) with L >= 1, with or without a
\* system prompt
InitAlternating ==
    /\ \E L \in 1..MaxTurnsArg, optSystemPrompt \in Opt(Contents) :
          Constructor(<<L>>, optSystemPrompt)
    /\ NoApi

-----------------------------------------------------------------------------
(* Mutating operations.  C is the set of texts the caller draws from and    *)
(* cap the largest history the model follows.                               *)

\* push and trim where an eviction also drops the system prompt
PushAndTrimDropsPrompt(msg, cap) ==
    /\ messages' = trimHistory(Append(messages, msg), maxTurns)
    /\ Len(messages') <= cap
    /\ evicted' = Len(messages) + 1 - Len(messages')
    /\ systemPrompt' = IF Len(messages') < Len(messages) + 1
                       THEN Undefined ELSE systemPrompt
    /\ UNCHANGED maxTurns
    /\ ret' = Void
    /\ UNCHANGED apiVars

\* this.messages.push(msg); this.trimHistory()
PushAndTrim(msg, cap) ==
    /\ messages' = trimHistory(Append(messages, msg), maxTurns)
    /\ Len(messages') <= cap
    /\ evicted' = Len(messages) + 1 - Len(messages')
    /\ UNCHANGED <<systemPrompt, maxTurns>>
    /\ ret' = Void
    /\ UNCHANGED apiVars

addUserMessage(C, cap) ==
    \E content \in C :
        /\ PushAndTrim(LLMMessage("user", content), cap)
        /\ lastOp' = [Op("addUserMessage") EXCEPT !.content = content]

addAssistantMessage(C, cap) ==
    \E content \in C :
        /\ PushAndTrim(LLMMessage("assistant", content), cap)
        /\ lastOp' = [Op("addAssistantMessage") EXCEPT !.content = content]

\* addMessage without the branch for system messages
addMessagePushesSystem(C, cap) ==
    \E role \in LLMRole, content \in C :
        /\ lastOp' = [Op("addMessage") EXCEPT !.role = role,
                                              !.content = content]
        /\ PushAndTrim(LLMMessage(role, content), cap)

\* addMessage taking an empty system message as "clear the prompt"
addMessageEmptyClears(C, cap) ==
    \E role \in LLMRole, content \in C :
        /\ lastOp' = [Op("addMessage") EXCEPT !.role = role,
                                              !.content = content]
        /\ IF role = "system"
           THEN /\ systemPrompt' = IF content = <<>> THEN Undefined
                                   ELSE Str(content)
                /\ evicted' = 0
                /\ ret' = Void
                /\ UNCHANGED apiVars
                /\ UNCHANGED <<messages, maxTurns>>
           ELSE PushAndTrim(LLMMessage(role, content), cap)

\* addMessage pushing without running the trim
addMessageNoTrim(C, cap) ==
    \E role \in LLMRole, content \in C :
        /\ lastOp' = [Op("addMessage") EXCEPT !.role = role,
                                              !.content = content]
        /\ IF role = "system"
           THEN /\ systemPrompt' = Str(content)
                /\ evicted' = 0
                /\ ret' = Void
                /\ UNCHANGED apiVars
                /\ UNCHANGED <<messages, maxTurns>>
           ELSE /\ messages' = Append(messages, LLMMessage(role, content))
                /\ Len(messages') <= cap
                /\ evicted' = 0
                /\ ret' = Void
                /\ UNCHANGED apiVars
                /\ UNCHANGED <<systemPrompt, maxTurns>>

addMessage(C, cap) ==
    \E role \in LLMRole, content \in C :
        /\ lastOp' = [Op("addMessage") EXCEPT !.role = role,
                                              !.content = content]
        /\ IF role = "system"
           THEN /\ systemPrompt' = Str(content)
                /\ evicted' = 0
                /\ ret' = Void
                /\ UNCHANGED apiVars
                /\ UNCHANGED <<messages, maxTurns>>
           ELSE PushAndTrim(LLMMessage(role, content), cap)

\* setSystemPrompt that assigns only a non-empty prompt
\* (`if (prompt) this.systemPrompt = prompt`)
setSystemPromptIgnoresEmpty(C) ==
    \E prompt \in Opt(C) :
        /\ systemPrompt' = IF Truthy(prompt) THEN prompt ELSE systemPrompt
        /\ lastOp' = [Op("setSystemPrompt") EXCEPT !.prompt = prompt]
        /\ evicted' = 0
        /\ ret' = Void
        /\ UNCHANGED apiVars
        /\ UNCHANGED <<messages, maxTurns>>

setSystemPrompt(C) ==
    \E prompt \in Opt(C) :
        /\ systemPrompt' = prompt
        /\ lastOp' = [Op("setSystemPrompt") EXCEPT !.prompt = prompt]
        /\ evicted' = 0
        /\ ret' = Void
        /\ UNCHANGED apiVars
        /\ UNCHANGED <<messages, maxTurns>>

\* setMaxTurns whose trim loop lacks `cutIndex < this.messages.length`: when
\* the assistant messages run to the end of the array the loop reads .role
\* of undefined and the call raises a TypeError instead of returning
setMaxTurnsUnguardedLoop ==
    \E n \in TurnLimits :
        /\ LET indices == userMessageIndices(messages, 0)
               turnsToRemove == Len(indices) - n
           IN  ~(/\ turnsToRemove >= 1
                 /\ turnsToRemove <= Len(indices)
                 /\ cutIndex(messages, indices[turnsToRemove] + 1)
                        = Len(messages))
        /\ maxTurns' = n
        /\ messages' = trimHistory(messages, n)
        /\ evicted' = Len(messages) - Len(messages')
        /\ lastOp' = [Op("setMaxTurns") EXCEPT !.n = n]
        /\ ret' = Void
        /\ UNCHANGED apiVars
        /\ UNCHANGED systemPrompt

\* setMaxTurns storing the limit without trimming
setMaxTurnsNoTrim ==
    \E n \in TurnLimits :
        /\ maxTurns' = n
        /\ messages' = messages
        /\ evicted' = 0
        /\ lastOp' = [Op("setMaxTurns") EXCEPT !.n = n]
        /\ ret' = Void
        /\ UNCHANGED apiVars
        /\ UNCHANGED systemPrompt

setMaxTurns ==
    \E n \in TurnLimits :
        /\ maxTurns' = n
        /\ messages' = trimHistory(messages, n)
        /\ evicted' = Len(messages) - Len(messages')
        /\ lastOp' = [Op("setMaxTurns") EXCEPT !.n = n]
        /\ ret' = Void
        /\ UNCHANGED apiVars
        /\ UNCHANGED systemPrompt

\* clear that also forgets the system prompt
clearDropsPrompt ==
    /\ messages' = <<>>
    /\ systemPrompt' = Undefined
    /\ evicted' = Len(messages)
    /\ lastOp' = Op("clear")
    /\ ret' = Void
    /\ UNCHANGED apiVars
    /\ UNCHANGED maxTurns

clear ==
    /\ messages' = <<>>
    /\ evicted' = Len(messages)
    /\ lastOp' = Op("clear")
    /\ ret' = Void
    /\ UNCHANGED apiVars
    /\ UNCHANGED <<systemPrompt, maxTurns>>

\* reset that also puts the limit back to DEFAULT_MAX_TURNS
resetRestoresDefault ==
    /\ messages' = <<>>
    /\ systemPrompt' = Undefined
    /\ maxTurns' = DEFAULT_MAX_TURNS
    /\ evicted' = Len(messages)
    /\ lastOp' = Op("reset")
    /\ ret' = Void
    /\ UNCHANGED apiVars

\* reset that empties the history but keeps the system prompt
resetKeepsPrompt ==
    /\ messages' = <<>>
    /\ evicted' = Len(messages)
    /\ lastOp' = Op("reset")
    /\ ret' = Void
    /\ UNCHANGED apiVars
    /\ UNCHANGED <<systemPrompt, maxTurns>>

reset ==
    /\ messages' = <<>>
    /\ systemPrompt' = Undefined
    /\ evicted' = Len(messages)
    /\ lastOp' = Op("reset")
    /\ ret' = Void
    /\ UNCHANGED apiVars
    /\ UNCHANGED maxTurns

\* the largest history a strictly alternating caller can build before a
\* trim: two messages per turn of the largest limit, and the append
AlternatingCap == 2 * MaxTurnsArg + 2

\* the caller of the class example: a user message first and after every
\* reply
alternateUser ==
    /\ lastOp.name \in {"constructor", "addAssistantMessage"}
    /\ addUserMessage(Contents, AlternatingCap)

\* the caller of the class example: the reply after every user message
alternateAssistant ==
    /\ lastOp.name = "addUserMessage"
    /\ addAssistantMessage(Contents, AlternatingCap)

-----------------------------------------------------------------------------
(* Read operations *)

Read(name, value) ==
    /\ lastOp' = Op(name)
    /\ ret' = Returned(name, value)
    /\ UNCHANGED apiVars
    /\ evicted' = 0
    /\ UNCHANGED storeVars

getPromptCall == Read("getPrompt", getPrompt(messages, systemPrompt))

\* getAllMessages inserting the system entry into this.messages itself and
\* returning that array
getAllMessagesCallStoresSystem ==
    /\ lastOp' = Op("getAllMessages")
    /\ messages' = getAllMessages(messages, systemPrompt)
    /\ ret' = Returned("getAllMessages", messages')
    /\ evicted' = 0
    /\ UNCHANGED <<systemPrompt, maxTurns>>
    /\ UNCHANGED apiVars

getAllMessagesCall ==
    Read("getAllMessages", getAllMessages(messages, systemPrompt))

\* getMessages returning this.messages itself instead of a copy
getMessagesCallReturnsStore ==
    /\ lastOp' = Op("getMessages")
    /\ ret' = [kind |-> "getMessages", val |-> messages, shared |-> TRUE]
    /\ evicted' = 0
    /\ UNCHANGED storeVars
    /\ UNCHANGED apiVars

getMessagesCall == Read("getMessages", getMessages(messages))

getSnapshotCall ==
    Read("getSnapshot", getSnapshot(messages, systemPrompt, maxTurns))

getTurnCountCall == Read("getTurnCount", getTurnCount(messages))

getSystemPromptCall == Read("getSystemPrompt", systemPrompt)

Reads ==
    \/ getPromptCall
    \/ getAllMessagesCall
    \/ getMessagesCall
    \/ getSnapshotCall
    \/ getTurnCountCall
    \/ getSystemPromptCall

-----------------------------------------------------------------------------
(* The caller changes the array a read has just returned *)

ArrayReads == {"getAllMessages", "getMessages"}

\* the element a caller pushes or assigns
CallerMessage == LLMMessage("assistant", <<"a">>)

\* returned.push(m), returned.pop() or returned[0] = m; an array shared with
\* the store changes the store too
mutateReturned ==
    /\ lastOp.name \in ArrayReads
    /\ ret.kind = lastOp.name
    /\ \E how \in {"returned.push", "returned.pop", "returned[0]="} :
          LET changed ==
                  CASE how = "returned.push" -> Append(ret.val, CallerMessage)
                    [] how = "returned.pop" ->
                          SubSeq(ret.val, 1, Len(ret.val) - 1)
                    [] how = "returned[0]=" ->
                          IF ret.val = <<>> THEN <<CallerMessage>>
                          ELSE [ret.val EXCEPT ![1] = CallerMessage]
          IN  /\ ret' = [ret EXCEPT !.val = changed]
              /\ messages' = IF ret.shared THEN changed ELSE messages
              /\ lastOp' = Op(how)
    /\ evicted' = 0
    /\ UNCHANGED <<systemPrompt, maxTurns>>
    /\ UNCHANGED apiVars

-----------------------------------------------------------------------------
(* The JavaScript entry points in front of the native module                *)

\* the values of Platform.OS
Platforms == {"ios", "android", "web", "macos"}

\* 'You are a helpful, friendly assistant. Answer the user directly and
\* concisely.'  Kept as one token: no operation looks inside it.
DEFAULT_SYSTEM_PROMPT == <<"You are a helpful, friendly assistant. Answer...">>

\* "You are a helpful, friendly assistant." of the native modules
NATIVE_DEFAULT_PROMPT == <<"You are a helpful, friendly assistant.">>

\* the text of the Error sendMessage throws
EMPTY_MESSAGES_ERROR == "messages array cannot be empty"

\* a messages argument: missing (undefined or null), or an array
MissingArray == [defined |-> FALSE, items |-> <<>>]

Array(items) == [defined |-> TRUE, items |-> items]

\* the arrays of at most n messages over the roles R and the texts C
RECURSIVE ArraysUpTo(_, _, _)
ArraysUpTo(n, R, C) ==
    IF n = 0 THEN {<<>>}
    ELSE LET shorter == ArraysUpTo(n - 1, R, C)
         IN  shorter \cup
             {Append(a, LLMMessage(r, c)) :
                 a \in {b \in shorter : Len(b) = n - 1}, r \in R, c \in C}

SendArrays ==
    {MissingArray} \cup {Array(a) : a \in ArraysUpTo(MaxSendMsgs, LLMRole,
                                                      Contents)}

\* the options argument: absent, or an object whose systemPrompt is a string
\* or undefined
NoOptions == [present |-> FALSE, systemPrompt |-> Undefined]

Options(prompt) == [present |-> TRUE, systemPrompt |-> prompt]

SendOptions == {NoOptions} \cup {Options(p) : p \in Opt(Contents)}

Resolved(v) == [kind |-> "resolved", val |-> v, shared |-> FALSE]

Rejected(e) == [kind |-> "rejected", val |-> e, shared |-> FALSE]

\* what the native sendMessage settles its promise with: a response, or the
\* error its generation raised
NativeOutcomes ==
    {Resolved([text |-> t]) : t \in Contents} \cup {Rejected("native error")}

\* messages.some((m) => m.role === 'system')
hasSystemMessage(items) == \E i \in 1..Len(items) : items[i].role = "system"

\* Kotlin String.isBlank: empty or whitespace only
IsBlank(text) == \A i \in 1..Len(text) : text[i] \in {" ", NL, "\t"}

\* Kotlin messages.firstOrNull { it["role"] == "system" }
RECURSIVE firstOrNullSystem(_)
firstOrNullSystem(items) ==
    IF items = <<>> THEN <<>>
    ELSE IF Head(items).role = "system" THEN <<Head(items)>>
    ELSE firstOrNullSystem(Tail(items))

\* the native sendMessage: the system prompt it generates with, taken from
\* the first system message, else from the fallback unless that is blank
nativeSystemPrompt(items, fallbackSystemPrompt) ==
    LET first == firstOrNullSystem(items)
    IN  IF first # <<>> THEN first[1].content
        ELSE IF IsBlank(fallbackSystemPrompt) THEN NATIVE_DEFAULT_PROMPT
        ELSE fallbackSystemPrompt

\* the record of NativeModule.sendMessage(messages, systemPrompt)
NativeSendMessage(items, fallbackSystemPrompt) ==
    [fn |-> "sendMessage", messages |-> items,
     systemPrompt |-> fallbackSystemPrompt,
     instructions |-> nativeSystemPrompt(items, fallbackSystemPrompt)]

\* the const systemPrompt of sendMessage with the options looked at first
sendSystemPromptOptionsFirst(items, options) ==
    IF options.present /\ options.systemPrompt.defined
    THEN options.systemPrompt.text
    ELSE IF hasSystemMessage(items) THEN <<>>
    ELSE DEFAULT_SYSTEM_PROMPT

\* the const systemPrompt of sendMessage:
\* hasSystemMessage ? '' : options?.systemPrompt ?? DEFAULT_SYSTEM_PROMPT
sendSystemPrompt(items, options) ==
    IF hasSystemMessage(items) THEN <<>>
    ELSE IF options.present /\ options.systemPrompt.defined
         THEN options.systemPrompt.text
         ELSE DEFAULT_SYSTEM_PROMPT

SendOp(name, msgs, options) ==
    [name |-> name, messages |-> msgs, options |-> options]

\* return NativeModule.sendMessage(messages, systemPrompt)
CallNativeSendMessage(msgs, options) ==
    /\ nativeCalls' = <<NativeSendMessage(msgs.items,
                                          sendSystemPrompt(msgs.items, options))>>
    /\ \E outcome \in NativeOutcomes : ret' = outcome

\* sendMessage checking the messages before the platform
sendMessageValidatesFirst ==
    \E msgs \in SendArrays, options \in SendOptions :
        /\ lastOp' = SendOp("sendMessage", msgs, options)
        /\ IF ~msgs.defined \/ Len(msgs.items) = 0
           THEN /\ ret' = Rejected(EMPTY_MESSAGES_ERROR)
                /\ nativeCalls' = <<>>
           ELSE IF platform # "ios" /\ platform # "android"
           THEN /\ ret' = Resolved([text |-> <<>>])
                /\ nativeCalls' = <<>>
           ELSE CallNativeSendMessage(msgs, options)
        /\ UNCHANGED <<platform, storeVars, evicted, streamVars>>

\* sendMessage testing only `!messages`, not the length
sendMessageAcceptsEmptyArray ==
    \E msgs \in SendArrays, options \in SendOptions :
        /\ lastOp' = SendOp("sendMessage", msgs, options)
        /\ IF platform # "ios" /\ platform # "android"
           THEN /\ ret' = Resolved([text |-> <<>>])
                /\ nativeCalls' = <<>>
           ELSE IF ~msgs.defined
           THEN /\ ret' = Rejected(EMPTY_MESSAGES_ERROR)
                /\ nativeCalls' = <<>>
           ELSE CallNativeSendMessage(msgs, options)
        /\ UNCHANGED <<platform, storeVars, evicted, streamVars>>

sendMessage ==
    \E msgs \in SendArrays, options \in SendOptions :
        /\ lastOp' = SendOp("sendMessage", msgs, options)
        /\ IF platform # "ios" /\ platform # "android"
           THEN /\ ret' = Resolved([text |-> <<>>])
                /\ nativeCalls' = <<>>
           ELSE IF ~msgs.defined \/ Len(msgs.items) = 0
           THEN /\ ret' = Rejected(EMPTY_MESSAGES_ERROR)
                /\ nativeCalls' = <<>>
           ELSE CallNativeSendMessage(msgs, options)
        /\ UNCHANGED <<platform, storeVars, evicted, streamVars>>

\* isAvailable: false off ios and android, else what the native module says
isAvailable ==
    /\ lastOp' = SendOp("isAvailable", MissingArray, NoOptions)
    /\ IF platform # "ios" /\ platform # "android"
       THEN /\ ret' = Resolved(FALSE)
            /\ nativeCalls' = <<>>
       ELSE /\ nativeCalls' = <<[fn |-> "isAvailable"]>>
            /\ \E available \in BOOLEAN : ret' = Resolved(available)
    /\ UNCHANGED <<platform, storeVars, evicted, streamVars>>

\* the module is loaded on some platform; no call has been made
InitSend ==
    /\ Constructor(<<>>, Undefined)
    /\ platform \in Platforms
    /\ nativeCalls = <<>>
    /\ NoStreams

-----------------------------------------------------------------------------
(* Streaming: the native module.  A native AsyncFunction call is queued and *)
(* run later; the job it launches runs beside the handlers; sendEvent puts   *)
(* an event on the way to JavaScript.                                        *)

\* the chunk of text the generator yields
CHUNK == <<"a">>

\* "[Error: ...]", the accumulatedText of the event sent from the catch block
STREAM_ERROR_TEXT == <<"[Error: ...]">>

\* "[On-device AI requires iOS 26+]"
IOS_FALLBACK_TEXT == <<"[On-device AI requires iOS 26+]">>

NativeCall(fn, sessionId) == [fn |-> fn, sessionId |-> sessionId]

\* the chunks yielded so far to the jobs of the session ids up to n
RECURSIVE ChunksYielded(_)
ChunksYielded(n) ==
    IF n = 0 THEN 0 ELSE jobs[n].chunks + ChunksYielded(n - 1)

\* the event map with "sessionId" read from a field of the module that
\* every launch overwrites, instead of the argument the job captured
onStreamTokenEventSharedId(job, token, accumulatedText, isDone) ==
    LET launched == {s \in SessionIds : jobs[s].pc # "none"} \cup {job}
        last == CHOOSE s \in launched : \A t \in launched : t <= s
    IN  [job |-> job,
         event |-> [sessionId |-> last, token |-> token,
                    accumulatedText |-> accumulatedText, isDone |-> isDone]]

\* sendEvent("onStreamToken", mapOf("sessionId" to sessionId, ...)) run by
\* the job launched for `job`; sessionId is the argument that job captured.
\* The job is kept beside the event to tell where an event came from.
onStreamTokenEvent(job, token, accumulatedText, isDone) ==
    [job |-> job,
     event |-> [sessionId |-> job, token |-> token,
                accumulatedText |-> accumulatedText, isDone |-> isDone]]

sendEvent(job, token, accumulatedText, isDone) ==
    eventQueue' = Append(eventQueue,
                         onStreamTokenEvent(job, token, accumulatedText, isDone))

\* what a step of the native layer leaves of the observation variables
NativeStep(name, sessionId) ==
    /\ lastOp' = [Op(name) EXCEPT !.n = sessionId]
    /\ ret' = Void
    /\ nativeCalls' = <<>>
    /\ UNCHANGED <<platform, storeVars, evicted, streamIdCounter>>

\* startStreaming up to the launch of the job (streamScope.launch, Task {});
\* on iOS below 26 there is no job, one final event is sent instead
startStreaming ==
    /\ nativeQueue # <<>>
    /\ Head(nativeQueue).fn = "startStreaming"
    /\ LET sessionId == Head(nativeQueue).sessionId
       IN  /\ jobs[sessionId].pc = "none"
           /\ NativeStep("startStreaming", sessionId)
           /\ \/ /\ jobs' = [jobs EXCEPT ![sessionId].pc = "running"]
                 /\ UNCHANGED <<nativeQueue, eventQueue>>
              \/ /\ platform = "ios"
                 /\ sendEvent(sessionId, IOS_FALLBACK_TEXT, IOS_FALLBACK_TEXT,
                              TRUE)
                 /\ nativeQueue' = Tail(nativeQueue)
                 /\ UNCHANGED jobs
    /\ UNCHANGED <<streams, activeStreamJobs>>

\* the last statement of startStreaming: activeStreamJobs[sessionId] = job
registerJob ==
    /\ nativeQueue # <<>>
    /\ Head(nativeQueue).fn = "startStreaming"
    /\ LET sessionId == Head(nativeQueue).sessionId
       IN  /\ jobs[sessionId].pc # "none"
           /\ NativeStep("registerJob", sessionId)
           /\ activeStreamJobs' = activeStreamJobs \cup {sessionId}
    /\ nativeQueue' = Tail(nativeQueue)
    /\ UNCHANGED <<streams, jobs, eventQueue>>

\* stopStreaming: cancel the registered job and drop its entry
stopStreaming ==
    /\ nativeQueue # <<>>
    /\ Head(nativeQueue).fn = "stopStreaming"
    /\ LET sessionId == Head(nativeQueue).sessionId
       IN  /\ NativeStep("stopStreaming", sessionId)
           /\ jobs' = IF sessionId \in activeStreamJobs
                      THEN [jobs EXCEPT ![sessionId].cancelled = TRUE]
                      ELSE jobs
           /\ activeStreamJobs' = activeStreamJobs \ {sessionId}
    /\ nativeQueue' = Tail(nativeQueue)
    /\ UNCHANGED <<streams, eventQueue>>

\* the final event sent by a job that then goes on running
JobEndsWithKeepsRunning(sessionId, accumulatedText) ==
    /\ sendEvent(sessionId, <<>>, accumulatedText, TRUE)
    /\ activeStreamJobs' = activeStreamJobs \ {sessionId}
    /\ UNCHANGED <<streams, nativeQueue, jobs>>

\* the job sends its final event and ends; the entry of the job is removed
\* (in onChunk on Android, in the clean-up of the Task on iOS)
JobEndsWith(sessionId, accumulatedText) ==
    /\ sendEvent(sessionId, <<>>, accumulatedText, TRUE)
    /\ jobs' = [jobs EXCEPT ![sessionId].pc = "ended"]
    /\ activeStreamJobs' = activeStreamJobs \ {sessionId}
    /\ UNCHANGED <<streams, nativeQueue>>

\* generateTextStream on a device without the model: onChunk("", "", true)
jobUnavailable ==
    \E sessionId \in SessionIds :
        /\ platform = "android"
        /\ jobs[sessionId].pc = "running"
        /\ ~jobs[sessionId].cancelled
        /\ jobs[sessionId].chunks = 0
        /\ NativeStep("jobUnavailable", sessionId)
        /\ JobEndsWith(sessionId, <<>>)

\* the generator yields a chunk: one event with isDone false
jobChunk ==
    \E sessionId \in SessionIds :
        /\ jobs[sessionId].pc = "running"
        /\ ~jobs[sessionId].cancelled
        /\ ChunksYielded(MaxStreams) < MaxChunks
        /\ NativeStep("jobChunk", sessionId)
        /\ LET accumulatedText == jobs[sessionId].accumulatedText \o CHUNK
           IN  /\ jobs' = [jobs EXCEPT
                              ![sessionId].accumulatedText = accumulatedText,
                              ![sessionId].chunks = @ + 1]
               /\ sendEvent(sessionId, CHUNK, accumulatedText, FALSE)
        /\ UNCHANGED <<streams, nativeQueue, activeStreamJobs>>

\* the generator is exhausted: the final event carries the accumulated text
jobFinish ==
    \E sessionId \in SessionIds :
        /\ jobs[sessionId].pc = "running"
        /\ ~jobs[sessionId].cancelled
        /\ NativeStep("jobFinish", sessionId)
        /\ JobEndsWith(sessionId, jobs[sessionId].accumulatedText)

\* a failure of the generator that ends the job without an event
jobErrorSilent ==
    \E sessionId \in SessionIds :
        /\ jobs[sessionId].pc = "running"
        /\ ~jobs[sessionId].cancelled
        /\ NativeStep("jobError", sessionId)
        /\ jobs' = [jobs EXCEPT ![sessionId].pc = "ended"]
        /\ activeStreamJobs' = activeStreamJobs \ {sessionId}
        /\ UNCHANGED <<streams, nativeQueue, eventQueue>>

\* the generator fails: the catch block sends the error as the final event
jobError ==
    \E sessionId \in SessionIds :
        /\ jobs[sessionId].pc = "running"
        /\ ~jobs[sessionId].cancelled
        /\ NativeStep("jobError", sessionId)
        /\ JobEndsWith(sessionId, STREAM_ERROR_TEXT)

\* the job after cancel().  cancel() only marks the job and stopStreaming
\* returns without waiting for it, so what the job does next comes after:
\*  - it ends without an event (iOS: `if Task.isCancelled { break }` and the
\*    final event is skipped; Android: the coroutine is cancelled before
\*    generateTextStream has entered its try block);
\*  - the cancellation surfaces as an exception at a suspension point inside
\*    the try block and the catch block (catch (e: Throwable), catch) sends
\*    the error as the final event;
\*  - the job had passed `if !Task.isCancelled`, or had left collect, when
\*    it was cancelled, and sends the final event;
\*  - the job was handling a chunk (past `if Task.isCancelled { break }`, in
\*    the collect lambda) when it was cancelled, and sends that one chunk.
jobCancelled ==
    \E sessionId \in SessionIds :
        /\ jobs[sessionId].pc = "running"
        /\ jobs[sessionId].cancelled
        /\ NativeStep("jobCancelled", sessionId)
        /\ \/ /\ jobs' = [jobs EXCEPT ![sessionId].pc = "ended"]
              /\ activeStreamJobs' = activeStreamJobs \ {sessionId}
              /\ UNCHANGED <<streams, nativeQueue, eventQueue>>
           \/ JobEndsWith(sessionId, STREAM_ERROR_TEXT)
           \/ JobEndsWith(sessionId, jobs[sessionId].accumulatedText)
           \/ /\ ~jobs[sessionId].late
              /\ ChunksYielded(MaxStreams) < MaxChunks
              /\ LET accumulatedText ==
                         jobs[sessionId].accumulatedText \o CHUNK
                 IN  /\ jobs' = [jobs EXCEPT
                                   ![sessionId].accumulatedText =
                                       accumulatedText,
                                   ![sessionId].chunks = @ + 1,
                                   ![sessionId].late = TRUE]
                     /\ sendEvent(sessionId, CHUNK, accumulatedText, FALSE)
              /\ UNCHANGED <<streams, nativeQueue, activeStreamJobs>>

-----------------------------------------------------------------------------
(* Streaming: streamMessage and the listener it registers                   *)

\* the next session id: one more than the ids generated so far
generateSessionId == streamIdCounter + 1

StreamArrays ==
    {Array(<<>>),
     Array(<<LLMMessage("user", <<"a">>)>>),
     Array(<<LLMMessage("system", <<"a">>), LLMMessage("user", <<"a">>)>>)}

StreamOptions == {NoOptions, Options(Str(<<"a">>))}

\* the handle streamMessage returns for a stream that was started
StreamHandle(sessionId) ==
    [kind |-> "stream", val |-> sessionId, shared |-> FALSE]

\* the record of NativeModule.startStreaming(messages, systemPrompt, sessionId)
NativeStartStreaming(items, fallbackSystemPrompt, sessionId) ==
    [fn |-> "startStreaming", messages |-> items,
     systemPrompt |-> fallbackSystemPrompt, sessionId |-> sessionId]

\* a listener that resolves the promise at the first event of its session
listenerResolvesAtFirstEvent(st, sessionId, em) ==
    IF em.event.sessionId # sessionId THEN st
    ELSE [st EXCEPT !.onToken = Append(@, em),
                    !.promise = IF @.kind = "pending"
                                THEN Resolved([text |->
                                                 em.event.accumulatedText])
                                ELSE @]

\* the onStreamToken listener of the stream sessionId, run on one event: an
\* event of another session is ignored; an event of its own is passed to
\* onToken, and the final one resolves the promise with its accumulatedText
listener(st, sessionId, em) ==
    IF em.event.sessionId # sessionId THEN st
    ELSE [st EXCEPT !.onToken = Append(@, em),
                    !.promise = IF em.event.isDone /\ @.kind = "pending"
                                THEN Resolved([text |->
                                                 em.event.accumulatedText])
                                ELSE @]

\* streamMessage(messages, onToken, options); a stream is started only while
\* fewer than cap have been
streamMessage(cap) ==
    \E msgs \in StreamArrays, options \in StreamOptions :
        /\ lastOp' = SendOp("streamMessage", msgs, options)
        /\ IF platform # "ios" /\ platform # "android"
           THEN /\ ret' = Resolved([text |-> <<>>])
                /\ nativeCalls' = <<>>
                /\ UNCHANGED <<streamIdCounter, streams, nativeQueue>>
           ELSE IF ~msgs.defined \/ Len(msgs.items) = 0
           THEN /\ ret' = Rejected(EMPTY_MESSAGES_ERROR)
                /\ nativeCalls' = <<>>
                /\ UNCHANGED <<streamIdCounter, streams, nativeQueue>>
           ELSE /\ streamIdCounter < cap
                /\ LET sessionId == generateSessionId
                   IN  /\ streamIdCounter' = sessionId
                       /\ streams' =
                            [streams EXCEPT ![sessionId] =
                                [NoStream EXCEPT !.started = TRUE,
                                                 !.subscribed = TRUE,
                                                 !.promise = Pending]]
                       /\ nativeCalls' =
                            <<NativeStartStreaming(
                                  msgs.items,
                                  sendSystemPrompt(msgs.items, options),
                                  sessionId)>>
                       /\ nativeQueue' =
                            Append(nativeQueue,
                                   NativeCall("startStreaming", sessionId))
                       /\ ret' = StreamHandle(sessionId)
        /\ UNCHANGED <<platform, storeVars, evicted, activeStreamJobs, jobs,
                       eventQueue>>

\* stop() of the handle of a started stream: NativeModule.stopStreaming
stop ==
    \E sessionId \in SessionIds :
        /\ streams[sessionId].started
        /\ ~streams[sessionId].stopped
        /\ Cardinality({s \in SessionIds : streams[s].stopped}) < MaxStops
        /\ lastOp' = [Op("stop") EXCEPT !.n = sessionId]
        /\ ret' = Void
        /\ streams' = [streams EXCEPT ![sessionId].stopped = TRUE]
        /\ nativeCalls' = <<NativeCall("stopStreaming", sessionId)>>
        /\ nativeQueue' = Append(nativeQueue,
                                 NativeCall("stopStreaming", sessionId))
        /\ UNCHANGED <<platform, storeVars, evicted, streamIdCounter,
                       activeStreamJobs, jobs, eventQueue>>

\* the oldest event on the way reaches JavaScript: every registered
\* listener is run on it, in the order of registration
dispatchEvent ==
    /\ eventQueue # <<>>
    /\ LET em == Head(eventQueue)
       IN  /\ lastOp' = [Op("onStreamToken") EXCEPT !.n = em.event.sessionId]
           /\ streams' =
                [s \in SessionIds |->
                    LET st == IF em.event.sessionId = s
                              THEN [streams[s] EXCEPT
                                       !.arrived = Append(@, em)]
                              ELSE streams[s]
                    IN  IF st.subscribed THEN listener(st, s, em) ELSE st]
    /\ eventQueue' = Tail(eventQueue)
    /\ ret' = Void
    /\ nativeCalls' = <<>>
    /\ UNCHANGED <<platform, storeVars, evicted, streamIdCounter, nativeQueue,
                   activeStreamJobs, jobs>>

\* the module is loaded on some platform; no stream has been started
InitStream ==
    /\ Constructor(<<>>, Undefined)
    /\ platform \in Platforms
    /\ nativeCalls = <<>>
    /\ NoStreams

-----------------------------------------------------------------------------
(* Specifications *)

Next ==
    \/ addUserMessage(Contents, MaxMsgs)
    \/ addAssistantMessage(Contents, MaxMsgs)
    \/ addMessage(Contents, MaxMsgs)
    \/ setSystemPrompt(Contents)
    \/ setMaxTurns
    \/ clear
    \/ reset
    \/ Reads

Spec == Init /\ [][Next]_vars

\* the same store over texts that may hold newline characters
NextText ==
    \/ addUserMessage(TextContents, MaxTextMsgs)
    \/ addAssistantMessage(TextContents, MaxTextMsgs)
    \/ addMessage(TextContents, MaxTextMsgs)
    \/ setSystemPrompt(TextContents)
    \/ setMaxTurns
    \/ clear
    \/ reset
    \/ Reads

SpecText == InitText /\ [][NextText]_vars

\* the store with a caller that mutates the arrays it is given
NextCopy ==
    \/ addUserMessage(Contents, MaxCopyMsgs)
    \/ addAssistantMessage(Contents, MaxCopyMsgs)
    \/ addMessage(Contents, MaxCopyMsgs)
    \/ setSystemPrompt(Contents)
    \/ setMaxTurns
    \/ clear
    \/ reset
    \/ Reads
    \/ mutateReturned

SpecCopy == Init /\ [][NextCopy]_vars

\* the operations that change the store, without the reads
NextTrim ==
    \/ addUserMessage(Contents, MaxTrimMsgs)
    \/ addAssistantMessage(Contents, MaxTrimMsgs)
    \/ addMessage(Contents, MaxTrimMsgs)
    \/ setSystemPrompt(Contents)
    \/ setMaxTurns
    \/ clear
    \/ reset

SpecTrim == Init /\ [][NextTrim]_vars

\* a store built without a maxTurns option, fed user messages only
NextDefault ==
    \/ addUserMessage(Contents, MaxDefaultMsgs)
    \/ getTurnCountCall

SpecDefault == InitDefault /\ [][NextDefault]_vars

\* a caller that strictly alternates user messages and replies
NextAlternating ==
    \/ alternateUser
    \/ alternateAssistant

SpecAlternating == InitAlternating /\ [][NextAlternating]_vars

\* the entry points isAvailable and sendMessage
NextSend ==
    \/ sendMessage
    \/ isAvailable

SpecSend == InitSend /\ [][NextSend]_vars

\* streamMessage, stop, the native module and the events between them
NextStream ==
    \/ streamMessage(MaxStreams)
    \/ startStreaming
    \/ registerJob
    \/ jobUnavailable
    \/ jobChunk
    \/ jobFinish
    \/ jobError
    \/ dispatchEvent

SpecStream == InitStream /\ [][NextStream]_vars

\* the same with callers that stop their streams
NextStop ==
    \/ streamMessage(MaxStopStreams)
    \/ stop
    \/ startStreaming
    \/ registerJob
    \/ stopStreaming
    \/ jobUnavailable
    \/ jobChunk
    \/ jobFinish
    \/ jobError
    \/ jobCancelled
    \/ dispatchEvent

SpecStop == InitStream /\ [][NextStop]_vars

\* the generator of a running job eventually finishes or fails, and the job
\* is scheduled
GeneratorEnds == WF_vars(jobUnavailable \/ jobFinish \/ jobError)

SpecStopFair == SpecStop /\ GeneratorEnds

-----------------------------------------------------------------------------
(* Vocabulary of the properties *)

\* the number of user-role messages of a history, counted by position
UserCount(msgs) ==
    Cardinality({i \in 1..Len(msgs) : msgs[i].role = "user"})

\* the calls that run trimHistory
RanTrim(op) ==
    \/ op.name \in {"addUserMessage", "addAssistantMessage", "setMaxTurns"}
    \/ op.name = "addMessage" /\ op.role # "system"

StartsWithUser(msgs) == msgs = <<>> \/ msgs[1].role = "user"

-----------------------------------------------------------------------------
(* C1 *)

\* C1: whenever the turn limit is a positive integer, the number of
\* user-role messages held is at most the current maxTurns, after every
\* operation of any sequence of operations.
C1_BoundedTurns ==
    maxTurns >= 1 => UserCount(messages) <= maxTurns

\* an append that evicted and left exactly maxTurns user messages
C1_Witness ==
    /\ lastOp.name = "addUserMessage"
    /\ maxTurns >= 1
    /\ evicted > 0
    /\ UserCount(messages) = maxTurns

-----------------------------------------------------------------------------
(* C2 *)

\* C2 (as stated): after every run of the trim (each addUserMessage,
\* addAssistantMessage, non-system addMessage and setMaxTurns), the stored
\* history is empty or its first message has role user.
C2_Original ==
    RanTrim(lastOp) => StartsWithUser(messages)

\* C2 (amended): after every run of the trim that evicts at least one
\* message, the stored history is empty or its first message has role user.
C2_NoDanglingAssistantAfterEviction ==
    (RanTrim(lastOp) /\ evicted > 0) => StartsWithUser(messages)

\* an eviction that removed a user message together with its replies and
\* left a history that starts with a user message
C2_Witness ==
    /\ RanTrim(lastOp)
    /\ evicted >= 2
    /\ messages # <<>>
    /\ messages[1].role = "user"

-----------------------------------------------------------------------------
(* C3 *)

\* C3: in every reachable state the stored history holds no message with
\* role system, and so does what getMessages() returns; getAllMessages()
\* holds at most one system message, and only at index 0.
C3_NoSystemInHistory ==
    /\ \A i \in 1..Len(messages) : messages[i].role # "system"
    /\ lastOp.name = "getMessages" =>
          \A i \in 1..Len(ret.val) : ret.val[i].role # "system"
    /\ lastOp.name = "getAllMessages" =>
          \A i \in 1..Len(ret.val) : ret.val[i].role = "system" => i = 1

\* addMessage with role system was called on a store that holds history
C3_Witness ==
    /\ lastOp.name = "addMessage"
    /\ lastOp.role = "system"
    /\ Len(messages) >= 2
    /\ systemPrompt = Str(lastOp.content)

-----------------------------------------------------------------------------
(* C4 *)

\* C4: addMessage({role: system, content: X}) leaves the stored history (and
\* so the turn count) unchanged and results in getSystemPrompt() = X, for
\* every text X, the empty text included.
C4_SystemMessageSetsPrompt ==
    [][(lastOp'.name = "addMessage" /\ lastOp'.role = "system") =>
          /\ messages' = messages
          /\ UserCount(messages') = UserCount(messages)
          /\ systemPrompt' = Str(lastOp'.content)]_vars

\* addMessage with role system and the empty text, on a store with history
C4_Witness ==
    /\ lastOp.name = "addMessage"
    /\ lastOp.role = "system"
    /\ lastOp.content = <<>>
    /\ systemPrompt = Str(<<>>)
    /\ messages # <<>>

-----------------------------------------------------------------------------
(* C5 *)

\* C5: addUserMessage, addAssistantMessage, non-system addMessage,
\* setMaxTurns and clear never change the system prompt, however many turns
\* they evict; only setSystemPrompt, addMessage with role system and reset
\* change it.
C5_SystemPromptExempt ==
    [][/\ (RanTrim(lastOp') \/ lastOp'.name = "clear") =>
              systemPrompt' = systemPrompt
       /\ systemPrompt' # systemPrompt =>
              \/ lastOp'.name \in {"setSystemPrompt", "reset"}
              \/ lastOp'.name = "addMessage" /\ lastOp'.role = "system"]_vars

\* an append evicted a turn while a system prompt was set
C5_Witness ==
    /\ lastOp.name \in {"addUserMessage", "addMessage"}
    /\ evicted >= 2
    /\ systemPrompt = Str(<<"a">>)

-----------------------------------------------------------------------------
(* C6 *)

\* C6: getAllMessages() returns one {system, systemPrompt} entry if and only
\* if the system prompt is set and non-empty, followed by every stored
\* message in order; when the prompt is unset or empty it equals
\* getMessages().
C6_AllMessages ==
    lastOp.name = "getAllMessages" =>
        IF systemPrompt.defined /\ Len(systemPrompt.text) > 0
        THEN /\ Len(ret.val) = Len(messages) + 1
             /\ ret.val[1] = [role |-> "system", content |-> systemPrompt.text]
             /\ \A i \in 1..Len(messages) : ret.val[i + 1] = messages[i]
        ELSE ret.val = messages

\* getAllMessages() was called with a system prompt set and two messages
C6_Witness ==
    /\ lastOp.name = "getAllMessages"
    /\ systemPrompt = Str(<<"a">>)
    /\ Len(messages) >= 2
    /\ Len(ret.val) = Len(messages) + 1

-----------------------------------------------------------------------------
(* C7 *)

\* the text "<ROLE>: <content>" of one message, ROLE spelled out per role
C7_Line(msg) ==
    (IF msg.role = "system" THEN <<"S", "Y", "S", "T", "E", "M">>
     ELSE IF msg.role = "user" THEN <<"U", "S", "E", "R">>
     ELSE <<"A", "S", "S", "I", "S", "T", "A", "N", "T">>)
    \o <<":", " ">> \o msg.content

\* the lines of the first k messages, each but the first preceded by exactly
\* one newline character
RECURSIVE C7_Rendered(_, _)
C7_Rendered(all, k) ==
    IF k = 0 THEN <<>>
    ELSE IF k = 1 THEN C7_Line(all[1])
    ELSE C7_Rendered(all, k - 1) \o <<NL>> \o C7_Line(all[k])

\* C7: getPrompt() is the messages of getAllMessages(), each rendered as
\* "<ROLE>: <content>" with ROLE one of SYSTEM, USER, ASSISTANT, joined in
\* message order by exactly one newline, nothing added before the first line
\* or after the last; it is the empty string when getAllMessages() is empty.
C7_PromptRendering ==
    lastOp.name = "getPrompt" =>
        LET all == getAllMessages(messages, systemPrompt)
        IN  /\ ret.val = C7_Rendered(all, Len(all))
            /\ all = <<>> => ret.val = <<>>
            /\ all # <<>> =>
                  LET last == C7_Line(all[Len(all)])
                  IN  /\ ret.val[1] # NL
                      /\ SubSeq(ret.val, Len(ret.val) - Len(last) + 1,
                                Len(ret.val)) = last

\* getPrompt() was called on a store with a system prompt and two messages
C7_Witness ==
    /\ lastOp.name = "getPrompt"
    /\ Truthy(systemPrompt)
    /\ Len(messages) = 2
    /\ Len(ret.val) > 0

-----------------------------------------------------------------------------
(* C8 *)

C8_Label(role) ==
    IF role = "system" THEN <<"S", "Y", "S", "T", "E", "M", ":", " ">>
    ELSE IF role = "user" THEN <<"U", "S", "E", "R", ":", " ">>
    ELSE <<"A", "S", "S", "I", "S", "T", "A", "N", "T", ":", " ">>

C8_StartsWith(line, prefix) ==
    /\ Len(line) >= Len(prefix)
    /\ SubSeq(line, 1, Len(prefix)) = prefix

\* the lines of the prompt correspond one to one to the messages
C8_LinesMatch(prompt, all) ==
    LET lines == Split(prompt)
    IN  /\ Len(lines) = Len(all)
        /\ \A i \in 1..Len(all) :
              i <= Len(lines) /\ C8_StartsWith(lines[i], C8_Label(all[i].role))

C8_HasNewline(text) == \E i \in 1..Len(text) : text[i] = NL

\* C8 (as stated): for every reachable store state and every content, empty
\* content and content holding newline characters included, getPrompt()
\* split on the newline character has exactly as many lines as
\* getAllMessages() has entries, in the same order, each line starting with
\* the upper-cased role name followed by ": ".
C8_Original ==
    lastOp.name = "getPrompt" =>
        C8_LinesMatch(ret.val, getAllMessages(messages, systemPrompt))

\* C8 (amended): the same, for every reachable store state in which
\* getAllMessages() is not empty and no content holds a newline character
\* (empty content included).
C8_SerializationLaw ==
    LET all == getAllMessages(messages, systemPrompt)
    IN  (/\ lastOp.name = "getPrompt"
         /\ all # <<>>
         /\ \A i \in 1..Len(all) : ~C8_HasNewline(all[i].content))
        => C8_LinesMatch(ret.val, all)

\* getPrompt() was called on a system prompt and two messages, one of them
\* with empty content, none holding a newline
C8_Witness ==
    LET all == getAllMessages(messages, systemPrompt)
    IN  /\ lastOp.name = "getPrompt"
        /\ Len(all) = 3
        /\ \E i \in 1..Len(all) : all[i].content = <<>>
        /\ \E i \in 1..Len(all) : all[i].content = <<"a">>
        /\ \A i \in 1..Len(all) : ~C8_HasNewline(all[i].content)
        /\ Len(Split(ret.val)) = 3

-----------------------------------------------------------------------------
(* C9 *)

\* the position of the user message that has exactly n user messages at or
\* after it
C9_StartOfLastTurns(msgs, n) ==
    CHOOSE k \in 1..Len(msgs) :
        /\ msgs[k].role = "user"
        /\ Cardinality({i \in k..Len(msgs) : msgs[i].role = "user"}) = n

\* C9: setMaxTurns(n) with a positive n lower than the current turn count
\* trims within the same call: when it returns the turn count is n and the
\* history holds only the n most recent turns.
C9_SetMaxTurnsTrims ==
    [][(/\ lastOp'.name = "setMaxTurns"
        /\ lastOp'.n >= 1
        /\ lastOp'.n < UserCount(messages)) =>
          /\ maxTurns' = lastOp'.n
          /\ UserCount(messages') = lastOp'.n
          /\ messages' = SubSeq(messages,
                                C9_StartOfLastTurns(messages, lastOp'.n),
                                Len(messages))]_vars

\* setMaxTurns(1) on two complete turns left one complete turn
C9_Witness ==
    /\ lastOp.name = "setMaxTurns"
    /\ lastOp.n = 1
    /\ evicted = 2
    /\ Len(messages) = 2
    /\ messages[1].role = "user"
    /\ messages[2].role = "assistant"

-----------------------------------------------------------------------------
(* C10 *)

\* C10: clear() empties the stored history and leaves the system prompt
\* unchanged: afterwards getMessages() is empty, the turn count is 0 and
\* getSystemPrompt() returns the value it had before.
C10_ClearKeepsPrompt ==
    [][lastOp'.name = "clear" =>
          /\ messages' = <<>>
          /\ UserCount(messages') = 0
          /\ systemPrompt' = systemPrompt]_vars

\* clear() removed messages of a store whose system prompt is set
C10_Witness ==
    /\ lastOp.name = "clear"
    /\ evicted >= 2
    /\ messages = <<>>
    /\ systemPrompt = Str(<<"a">>)

-----------------------------------------------------------------------------
(* C11 *)

\* C11: reset() empties the stored history and clears the system prompt:
\* afterwards getMessages() and getAllMessages() are empty, getPrompt() is
\* the empty string and getSystemPrompt() is undefined.
C11_ResetClearsAll ==
    [][lastOp'.name = "reset" =>
          /\ messages' = <<>>
          /\ systemPrompt' = Undefined
          /\ getMessages(messages') = <<>>
          /\ getAllMessages(messages', systemPrompt') = <<>>
          /\ getPrompt(messages', systemPrompt') = <<>>]_vars

\* reset() was called on a store that held messages
C11_Witness ==
    /\ lastOp.name = "reset"
    /\ evicted >= 2
    /\ messages = <<>>
    /\ systemPrompt = Undefined

-----------------------------------------------------------------------------
(* C12 *)

\* C12: setSystemPrompt(p) overwrites the system prompt and changes neither
\* the stored history nor the turn limit; with p absent or empty,
\* getAllMessages() afterwards holds no system entry and equals
\* getMessages().
C12_SetSystemPrompt ==
    [][lastOp'.name = "setSystemPrompt" =>
          /\ systemPrompt' = lastOp'.prompt
          /\ messages' = messages
          /\ maxTurns' = maxTurns
          /\ (~lastOp'.prompt.defined \/ lastOp'.prompt.text = <<>>) =>
                LET all == getAllMessages(messages', systemPrompt')
                IN  /\ all = getMessages(messages')
                    /\ \A i \in 1..Len(all) : all[i].role # "system"]_vars

\* setSystemPrompt('') was called on a store that holds history
C12_Witness ==
    /\ lastOp.name = "setSystemPrompt"
    /\ lastOp.prompt = Str(<<>>)
    /\ systemPrompt = Str(<<>>)
    /\ Len(messages) >= 2

-----------------------------------------------------------------------------
(* C13 *)

C13_ReadNames ==
    {"getAllMessages", "getMessages", "getPrompt", "getSnapshot",
     "getTurnCount", "getSystemPrompt"}

\* C13: the read operations never change the stored history, the system
\* prompt or the turn limit, and a getAllMessages() call right after a
\* getAllMessages() call returns an equal sequence.
C13_ReadsArePure ==
    [][/\ lastOp'.name \in C13_ReadNames =>
              /\ messages' = messages
              /\ systemPrompt' = systemPrompt
              /\ maxTurns' = maxTurns
       /\ (lastOp.name = "getAllMessages" /\ lastOp'.name = "getAllMessages")
              => ret'.val = ret.val]_vars

\* getAllMessages() was called on a store with a system prompt and history
C13_Witness ==
    /\ lastOp.name = "getAllMessages"
    /\ Truthy(systemPrompt)
    /\ Len(messages) >= 1
    /\ ret.val[1].role = "system"

-----------------------------------------------------------------------------
(* C14 *)

C14_Mutations == {"returned.push", "returned.pop", "returned[0]="}

\* C14: the sequences returned by getAllMessages() and getMessages() are
\* fresh copies: adding, removing or replacing elements of a returned
\* sequence changes nothing of what later reads of the store return.
C14_ReturnedArraysAreCopies ==
    [][lastOp'.name \in C14_Mutations =>
          /\ messages' = messages
          /\ getMessages(messages') = getMessages(messages)
          /\ getAllMessages(messages', systemPrompt')
                = getAllMessages(messages, systemPrompt)
          /\ getPrompt(messages', systemPrompt')
                = getPrompt(messages, systemPrompt)
          /\ getTurnCount(messages') = getTurnCount(messages)]_vars

\* a caller popped an element off the array getMessages() returned while the
\* store still holds every message
C14_Witness ==
    /\ lastOp.name = "returned.pop"
    /\ ret.kind = "getMessages"
    /\ Len(messages) >= 2
    /\ Len(ret.val) = Len(messages) - 1

-----------------------------------------------------------------------------
(* C15 *)

\* this step leaves the store that appending {role, content} to the history
\* of the state before and trimming under its limit gives
C15_StoreAfterAppend(role, content) ==
    /\ messages' = trimHistory(Append(messages, LLMMessage(role, content)),
                               maxTurns)
    /\ evicted' = Len(messages) + 1 - Len(messages')
    /\ systemPrompt' = systemPrompt
    /\ maxTurns' = maxTurns

\* C15: addMessage(m) with m.role user or assistant is equivalent to
\* addUserMessage(m.content) or addAssistantMessage(m.content): from the same
\* state both leave the same history, system prompt and turn limit, with the
\* same evictions.  Each of the three calls is held against one and the same
\* function of the state before and of (role, content).
C15_AddMessageEquivalent ==
    [][/\ (lastOp'.name = "addMessage" /\ lastOp'.role # "system") =>
              C15_StoreAfterAppend(lastOp'.role, lastOp'.content)
       /\ lastOp'.name = "addUserMessage" =>
              C15_StoreAfterAppend("user", lastOp'.content)
       /\ lastOp'.name = "addAssistantMessage" =>
              C15_StoreAfterAppend("assistant", lastOp'.content)]_vars

\* addMessage with role user evicted a complete turn
C15_Witness ==
    /\ lastOp.name = "addMessage"
    /\ lastOp.role = "user"
    /\ evicted >= 2
    /\ messages # <<>>
    /\ messages[Len(messages)] = LLMMessage("user", lastOp.content)

-----------------------------------------------------------------------------
(* C16 *)

\* C16: a ChatMemoryManager constructed without a maxTurns option has a turn
\* limit of 10: any number of addUserMessage calls leaves at most 10 user
\* messages, and the 11th user message (the one appended to a history of 10)
\* is the first to cause an eviction.
C16_DefaultLimitIsTen ==
    [][/\ maxTurns = 10 /\ maxTurns' = 10
       /\ lastOp'.name = "addUserMessage" =>
              /\ UserCount(messages') <= 10
              /\ evicted' > 0 <=> UserCount(messages) = 10
              /\ UserCount(messages) = 10 =>
                    /\ evicted' = 1
                    /\ messages' = Append(Tail(messages),
                                          LLMMessage("user", lastOp'.content))
              /\ UserCount(messages) < 10 =>
                    messages' = Append(messages,
                                       LLMMessage("user", lastOp'.content))]_vars

\* the append to a history of ten user messages evicted the oldest
C16_Witness ==
    /\ lastOp.name = "addUserMessage"
    /\ maxTurns = 10
    /\ evicted = 1
    /\ Len(messages) = 10
    /\ UserCount(messages) = 10

-----------------------------------------------------------------------------
(* C17 *)

\* C17: every store operation is total: in every reachable state and for
\* every well-typed argument (any text, the empty one included, any role,
\* any integer turn limit) the call returns; none raises an error.  A call
\* that raises has no state to return to, so "returns" is "is enabled";
\* the cap of the appends is lifted by one so that it never is the reason.
C17_OperationsAreTotal ==
    /\ \A c \in TextContents :
          /\ ENABLED addUserMessage({c}, MaxTextMsgs + 1)
          /\ ENABLED addAssistantMessage({c}, MaxTextMsgs + 1)
          /\ \A r \in LLMRole :
                ENABLED (addMessage({c}, MaxTextMsgs + 1) /\ lastOp'.role = r)
          /\ ENABLED setSystemPrompt({c})
    /\ \A p \in Opt(TextContents) :
          ENABLED (setSystemPrompt(TextContents) /\ lastOp'.prompt = p)
    /\ \A n \in TurnLimits : ENABLED (setMaxTurns /\ lastOp'.n = n)
    /\ ENABLED clear
    /\ ENABLED reset
    /\ ENABLED getPromptCall
    /\ ENABLED getAllMessagesCall
    /\ ENABLED getMessagesCall
    /\ ENABLED getSnapshotCall
    /\ ENABLED getTurnCountCall
    /\ ENABLED getSystemPromptCall

\* setMaxTurns(0) returned on a history whose last turn ended with assistant
\* messages: the trim loop ran to the end of the array
C17_Witness ==
    /\ lastOp.name = "setMaxTurns"
    /\ lastOp.n = 0
    /\ evicted >= 2
    /\ messages = <<>>

-----------------------------------------------------------------------------
(* Vocabulary of the entry-point properties *)

OnMobile == platform = "ios" \/ platform = "android"

\* the last call was sendMessage with no messages: missing or empty array
SentNoMessages ==
    /\ lastOp.name = "sendMessage"
    /\ (~lastOp.messages.defined \/ lastOp.messages.items = <<>>)

-----------------------------------------------------------------------------
(* C18 *)

\* C18: the system prompt sendMessage passes to the native module is the
\* empty string whenever some message of the array has role system
\* (options.systemPrompt is then ignored and the native layer uses the
\* content of the first system message); otherwise options.systemPrompt when
\* provided; otherwise the built-in default prompt.
C18_SystemPromptChoice ==
    (lastOp.name = "sendMessage" /\ OnMobile /\ ~SentNoMessages) =>
        LET items == lastOp.messages.items
            options == lastOp.options
            systemAt == {i \in 1..Len(items) : items[i].role = "system"}
        IN  /\ Len(nativeCalls) = 1
            /\ nativeCalls[1].fn = "sendMessage"
            /\ nativeCalls[1].messages = items
            /\ IF systemAt # {}
               THEN /\ nativeCalls[1].systemPrompt = <<>>
                    /\ \E i \in systemAt :
                          /\ \A j \in systemAt : i <= j
                          /\ nativeCalls[1].instructions = items[i].content
               ELSE IF options.present /\ options.systemPrompt.defined
               THEN nativeCalls[1].systemPrompt = options.systemPrompt.text
               ELSE nativeCalls[1].systemPrompt = DEFAULT_SYSTEM_PROMPT

\* sendMessage was called with a system message that is not the first
\* element and with options.systemPrompt given: the empty string was passed
C18_Witness ==
    /\ lastOp.name = "sendMessage"
    /\ OnMobile
    /\ Len(lastOp.messages.items) = 2
    /\ lastOp.messages.items[1].role = "user"
    /\ lastOp.messages.items[2] = LLMMessage("system", <<"a">>)
    /\ lastOp.options = Options(Str(<<"a">>))
    /\ Len(nativeCalls) = 1
    /\ nativeCalls[1].systemPrompt = <<>>
    /\ nativeCalls[1].instructions = <<"a">>

-----------------------------------------------------------------------------
(* C19 *)

\* C19: on a platform other than ios or android, isAvailable() resolves to
\* false and sendMessage(messages, options) resolves to {text: ''} for any
\* arguments, and in neither case is the native module called.
C19_UnsupportedPlatform ==
    (~OnMobile /\ lastOp.name \in {"isAvailable", "sendMessage"}) =>
        /\ nativeCalls = <<>>
        /\ ret.kind = "resolved"
        /\ lastOp.name = "isAvailable" => ret.val = FALSE
        /\ lastOp.name = "sendMessage" => ret.val = [text |-> <<>>]

\* sendMessage([]) resolved on web
C19_Witness ==
    /\ platform = "web"
    /\ lastOp.name = "sendMessage"
    /\ lastOp.messages = Array(<<>>)
    /\ ret = Resolved([text |-> <<>>])
    /\ nativeCalls = <<>>

-----------------------------------------------------------------------------
(* C20 *)

\* C20: on ios or android, sendMessage with an empty or missing messages
\* array rejects with the error 'messages array cannot be empty' and does
\* not call the native module.
C20_EmptyMessagesRejected ==
    (OnMobile /\ SentNoMessages) =>
        /\ ret.kind = "rejected"
        /\ ret.val = "messages array cannot be empty"
        /\ nativeCalls = <<>>

\* sendMessage([]) was rejected on android
C20_Witness ==
    /\ platform = "android"
    /\ lastOp.name = "sendMessage"
    /\ lastOp.messages = Array(<<>>)
    /\ ret.kind = "rejected"
    /\ nativeCalls = <<>>

-----------------------------------------------------------------------------
(* Vocabulary of the eviction properties *)

\* the calls that push a message onto the history
IsAppend(op) ==
    \/ op.name \in {"addUserMessage", "addAssistantMessage"}
    \/ op.name = "addMessage" /\ op.role # "system"

\* the message such a call pushes
Appended(op) ==
    LLMMessage(CASE op.name = "addUserMessage" -> "user"
                 [] op.name = "addAssistantMessage" -> "assistant"
                 [] OTHER -> op.role,
               op.content)

\* in a step: the history the trim of this step's call starts from, the
\* message just pushed included
BeforeTrim ==
    IF IsAppend(lastOp') THEN Append(messages, Appended(lastOp'))
    ELSE messages

\* in a step: this step's call ran the trim and the trim removed messages
Evicts ==
    /\ RanTrim(lastOp')
    /\ Len(messages') < Len(BeforeTrim)

UsersOf(msgs) == {i \in 1..Len(msgs) : msgs[i].role = "user"}

-----------------------------------------------------------------------------
(* C23 *)

\* C23: whenever an operation evicts messages, the history it retains is a
\* contiguous suffix of the history before the eviction (the message just
\* appended included): nothing retained is reordered, duplicated, altered or
\* dropped from the middle.
C23_RetainsSuffix ==
    [][Evicts =>
          LET before == BeforeTrim
              k == Len(before) - Len(messages')
          IN  /\ evicted' = k
              /\ \A i \in 1..Len(messages') : messages'[i] = before[k + i]]_vars

\* an append evicted the oldest turn, reply included, and kept a turn with
\* its reply and the new message
C23_Witness ==
    /\ lastOp.name \in {"addUserMessage", "addMessage"}
    /\ evicted = 2
    /\ Len(messages) = 3
    /\ messages[1].role = "user"
    /\ messages[2].role = "assistant"
    /\ messages[3] = LLMMessage("user", lastOp.content)

-----------------------------------------------------------------------------
(* C24 *)

\* C24 (as stated): whenever an operation evicts messages, the evicted
\* prefix consists only of one or more complete turns: it begins with a user
\* message, every evicted user message is evicted together with all
\* assistant messages immediately following it, and no assistant message is
\* evicted without a user message before it in the evicted prefix.
C24_Original ==
    [][Evicts =>
          LET before == BeforeTrim
              k == Len(before) - Len(messages')
          IN  /\ before[1].role = "user"
              /\ k < Len(before) => before[k + 1].role # "assistant"
              /\ \A i \in 1..k :
                    before[i].role = "assistant" =>
                        \E j \in 1..(i - 1) : before[j].role = "user"]_vars

\* C24 (amended): whenever an operation evicts messages, the evicted prefix
\* is the assistant messages that stand before the first user message of the
\* history, if any, followed by one or more complete turns: it holds a user
\* message, every evicted user message is evicted together with all
\* assistant messages immediately following it, and an assistant message is
\* evicted without a user message before it only at the very start of the
\* history.
C24_EvictsCompleteTurns ==
    [][Evicts =>
          LET before == BeforeTrim
              k == Len(before) - Len(messages')
          IN  /\ \E i \in 1..k : before[i].role = "user"
              /\ k < Len(before) => before[k + 1].role # "assistant"
              /\ \A i \in 1..k :
                    before[i].role = "assistant" =>
                        \/ \E j \in 1..(i - 1) : before[j].role = "user"
                        \/ \A j \in 1..(i - 1) :
                              before[j].role = "assistant"]_vars

\* setMaxTurns(1) evicted a turn of three messages and kept the last user
\* message
C24_Witness ==
    /\ lastOp.name = "setMaxTurns"
    /\ lastOp.n = 1
    /\ evicted = 3
    /\ Len(messages) = 1
    /\ messages[1].role = "user"

-----------------------------------------------------------------------------
(* C25 *)

\* C25: when a trim runs with a turn limit L >= 1 on a history holding
\* n > L user messages, the history it retains starts exactly at the
\* (n-L+1)-th oldest user message: exactly the L most recent user messages
\* remain (getTurnCount() = L, never fewer), each with every assistant
\* message that follows it.  Limit 2 with the appends user, assistant, user,
\* assistant, user leaves [user, assistant, user].
C25_KeepsLastTurns ==
    [][(/\ RanTrim(lastOp')
        /\ maxTurns' >= 1
        /\ Cardinality(UsersOf(BeforeTrim)) > maxTurns') =>
          LET before == BeforeTrim
              users == UsersOf(before)
              start == CHOOSE k \in users :
                          Cardinality({i \in users : i < k})
                             = Cardinality(users) - maxTurns'
          IN  /\ messages' = SubSeq(before, start, Len(before))
              /\ Cardinality(UsersOf(messages')) = maxTurns'
              /\ getTurnCount(messages') = maxTurns']_vars

\* under limit 2 the third user message evicted the first turn and its reply
\* and left [user, assistant, user]
C25_Witness ==
    /\ lastOp.name = "addUserMessage"
    /\ maxTurns = 2
    /\ evicted = 2
    /\ Len(messages) = 3
    /\ messages[1].role = "user"
    /\ messages[2].role = "assistant"
    /\ messages[3].role = "user"
    /\ getTurnCount(messages) = 2

-----------------------------------------------------------------------------
(* C26 *)

\* C26: appending an assistant message never evicts: in every reachable
\* state, after addAssistantMessage(c), or addMessage with role assistant,
\* the history is the previous history with {assistant, c} appended as its
\* last element.
C26_AssistantNeverEvicts ==
    [][(\/ lastOp'.name = "addAssistantMessage"
        \/ lastOp'.name = "addMessage" /\ lastOp'.role = "assistant") =>
          /\ messages' = Append(messages,
                                LLMMessage("assistant", lastOp'.content))
          /\ evicted' = 0]_vars

\* a second reply was appended to a store that is at its limit of one turn
C26_Witness ==
    /\ lastOp.name = "addAssistantMessage"
    /\ maxTurns = 1
    /\ Len(messages) = 3
    /\ messages[1].role = "user"
    /\ messages[2].role = "assistant"
    /\ messages[3] = LLMMessage("assistant", lastOp.content)

-----------------------------------------------------------------------------
(* C27 *)

\* C27: when the turn limit is zero or a negative integer (set through
\* setMaxTurns or the constructor), the store retains zero turns instead of
\* ignoring the limit: after setMaxTurns(n) with n <= 0, and after every
\* later append, getTurnCount() is 0.
C27_NonPositiveLimitKeepsNoTurn ==
    maxTurns <= 0 => getTurnCount(messages) = 0

-----------------------------------------------------------------------------
(* C28 *)

\* C28: getSnapshot() agrees with the other accessors in every reachable
\* state: its messages equal getAllMessages(), its systemPrompt equals
\* getSystemPrompt(), its turnCount equals getTurnCount() (an integer >= 0,
\* the number of user entries of its messages) and its maxTurns equals the
\* current turn limit.
C28_SnapshotConsistent ==
    lastOp.name = "getSnapshot" =>
        /\ ret.val.messages = getAllMessages(messages, systemPrompt)
        /\ ret.val.systemPrompt = systemPrompt
        /\ ret.val.turnCount = getTurnCount(messages)
        /\ ret.val.turnCount >= 0
        /\ ret.val.turnCount = Cardinality(UsersOf(ret.val.messages))
        /\ ret.val.maxTurns = maxTurns

\* getSnapshot() was called on a store with a system prompt, a user message
\* and a reply
C28_Witness ==
    /\ lastOp.name = "getSnapshot"
    /\ Truthy(systemPrompt)
    /\ Len(messages) >= 2
    /\ ret.val.turnCount = 1
    /\ Len(ret.val.messages) = Len(messages) + 1

-----------------------------------------------------------------------------
(* C29 *)

\* the text ends with the text tail
C29_EndsWith(text, tail) ==
    /\ Len(text) >= Len(tail)
    /\ SubSeq(text, Len(text) - Len(tail) + 1, Len(text)) = tail

\* C29: for a store with turn limit >= 1, right after addUserMessage(c) the
\* last message of getMessages() is {user, c}: a user message is never
\* evicted by its own append, so the prompt built for the next generation
\* call ends with the latest user message.
C29_LatestUserMessageKept ==
    [][(lastOp'.name = "addUserMessage" /\ maxTurns' >= 1) =>
          LET stored == getMessages(messages')
          IN  /\ stored # <<>>
              /\ stored[Len(stored)] = LLMMessage("user", lastOp'.content)
              /\ C29_EndsWith(getPrompt(messages', systemPrompt'),
                              <<"U", "S", "E", "R", ":", " ">>
                                 \o lastOp'.content)]_vars

\* under limit 1 a user message evicted the whole previous turn and is the
\* only message left
C29_Witness ==
    /\ lastOp.name = "addUserMessage"
    /\ maxTurns = 1
    /\ evicted >= 2
    /\ messages = <<LLMMessage("user", lastOp.content)>>

-----------------------------------------------------------------------------
(* C30 *)

\* C30: trimming removes nothing when the limit is not exceeded: if after an
\* append the number of user messages is at most the turn limit, the history
\* is exactly the previous history plus the new message; and setMaxTurns(n)
\* with n >= getTurnCount() leaves the history unchanged (raising the limit
\* never brings evicted messages back).
C30_NoTrimWithinLimit ==
    [][/\ (/\ IsAppend(lastOp')
           /\ Cardinality(UsersOf(BeforeTrim)) <= maxTurns') =>
              /\ messages' = Append(messages, Appended(lastOp'))
              /\ evicted' = 0
       /\ (/\ lastOp'.name = "setMaxTurns"
           /\ lastOp'.n >= getTurnCount(messages)) =>
              /\ messages' = messages
              /\ evicted' = 0]_vars

\* setMaxTurns(2) on a store holding one complete turn under a lower limit
\* changed only the limit
C30_Witness ==
    /\ lastOp.name = "setMaxTurns"
    /\ lastOp.n = 2
    /\ maxTurns = 2
    /\ evicted = 0
    /\ Len(messages) = 2
    /\ messages[1].role = "user"
    /\ messages[2].role = "assistant"

-----------------------------------------------------------------------------
(* C31 *)

\* C31: trimming is idempotent: for any n >= 0 and any reachable state,
\* calling setMaxTurns(n) twice in a row leaves the same history, system
\* prompt and limit as calling it once.  The store a call of setMaxTurns(n)
\* leaves is a fixed point of the trim under n, and a call of setMaxTurns(n)
\* that follows a call of setMaxTurns(n) changes none of the three fields.
C31_SetMaxTurnsIdempotent ==
    [][(lastOp'.name = "setMaxTurns" /\ lastOp'.n >= 0) =>
          /\ maxTurns' = lastOp'.n
          /\ trimHistory(messages', lastOp'.n) = messages'
          /\ (lastOp = lastOp') =>
                /\ messages' = messages
                /\ systemPrompt' = systemPrompt
                /\ maxTurns' = maxTurns]_vars

\* setMaxTurns(1) evicted two messages or more and kept one turn
C31_Witness ==
    /\ lastOp.name = "setMaxTurns"
    /\ lastOp.n = 1
    /\ evicted >= 2
    /\ UserCount(messages) = 1
    /\ Len(messages) >= 2

-----------------------------------------------------------------------------
(* C32 *)

\* C32: the turn limit changes only through setMaxTurns: appends,
\* setSystemPrompt, clear, reset and all reads leave maxTurns unchanged; in
\* particular reset() restores neither the default of 10 nor the limit given
\* to the constructor.
C32_OnlySetMaxTurnsChangesLimit ==
    [][lastOp'.name # "setMaxTurns" => maxTurns' = maxTurns]_vars

\* reset() ran on a store that held messages and left a limit that is not
\* the default
C32_Witness ==
    /\ lastOp.name = "reset"
    /\ evicted > 0
    /\ maxTurns # DEFAULT_MAX_TURNS
    /\ messages = <<>>
    /\ systemPrompt = Undefined

-----------------------------------------------------------------------------
(* C33 *)

\* C33: if a caller strictly alternates addUserMessage and
\* addAssistantMessage, starting with a user message, on a store with turn
\* limit L >= 1, then in every reachable state getMessages() has at most 2*L
\* messages and is an alternating user/assistant sequence that starts with a
\* user message.
C33_AlternatingHistory ==
    maxTurns >= 1 =>
        LET msgs == getMessages(messages)
        IN  /\ Len(msgs) <= 2 * maxTurns
            /\ \A i \in 1..Len(msgs) :
                  msgs[i].role = IF i % 2 = 1 THEN "user" ELSE "assistant"

\* the user message that opens turn L + 1 evicted the oldest turn, both of
\* its messages, and the history is one message short of 2*L
C33_Witness ==
    /\ lastOp.name = "addUserMessage"
    /\ evicted = 2
    /\ maxTurns >= 1
    /\ Len(messages) = 2 * maxTurns - 1

-----------------------------------------------------------------------------
(* Vocabulary of the streaming properties *)

Started == {s \in SessionIds : streams[s].started}

\* the positions of the final events among the events es
DoneAt(es) == {i \in 1..Len(es) : es[i].event.isDone}

-----------------------------------------------------------------------------
(* C21 *)

\* C21: a stream started by streamMessage passes to its onToken callback
\* only events whose sessionId is the stream's own session id; an event of
\* another session (one sent by the job of another stream, streams running
\* at the same time included) is never passed to it.
C21_OnlyOwnSession ==
    \A s \in Started :
        \A i \in 1..Len(streams[s].onToken) :
            /\ streams[s].onToken[i].event.sessionId = s
            /\ streams[s].onToken[i].job = s

\* the final event of the second stream reached JavaScript while the first
\* stream, which had received a chunk, was still waiting for its own
C21_Witness ==
    /\ streams[1].promise.kind = "pending"
    /\ Len(streams[1].onToken) = 1
    /\ lastOp.name = "onStreamToken"
    /\ lastOp.n = 2
    /\ Len(streams[2].onToken) = 1
    /\ streams[2].promise.kind = "resolved"

-----------------------------------------------------------------------------
(* C22 *)

\* C22: for a stream started by streamMessage, onToken is called exactly
\* once for every event of its session, in the order of arrival; the promise
\* is resolved only once an event with isDone = true has arrived, and then
\* with the accumulatedText of that event as its text.
C22_TokensAndResult ==
    \A s \in Started :
        LET st == streams[s]
        IN  /\ st.onToken = st.arrived
            /\ st.promise.kind \in {"pending", "resolved"}
            /\ st.promise.kind = "pending" <=> DoneAt(st.arrived) = {}
            /\ st.promise.kind = "resolved" =>
                  \E i \in DoneAt(st.arrived) :
                      /\ \A j \in DoneAt(st.arrived) : i <= j
                      /\ st.promise.val
                            = [text |-> st.arrived[i].event.accumulatedText]

\* a chunk and then the final event arrived: onToken was called twice and
\* the promise resolved with the text accumulated
C22_Witness ==
    \E s \in Started :
        /\ Len(streams[s].onToken) = 2
        /\ ~streams[s].onToken[1].event.isDone
        /\ streams[s].onToken[2].event.isDone
        /\ streams[s].promise = Resolved([text |-> CHUNK])

-----------------------------------------------------------------------------
(* Vocabulary of the properties of the native streaming layer *)

\* stop() of the stream s has called stopStreaming(s) and the call has
\* returned
StopReturned(s) ==
    /\ streams[s].stopped
    /\ \A i \in 1..Len(nativeQueue) :
          nativeQueue[i] # NativeCall("stopStreaming", s)

\* this step emits an onStreamToken event carrying the session id s
EmitsFor(s) ==
    /\ Len(eventQueue') = Len(eventQueue) + 1
    /\ eventQueue'[Len(eventQueue')].event.sessionId = s

\* the events the native layer has emitted with the session id s, in the
\* order of emission: those that reached JavaScript, then those on the way
Emitted(s) ==
    streams[s].arrived
        \o SelectSeq(eventQueue, LAMBDA em : em.event.sessionId = s)

\* the startStreaming call that launched the job of s has returned
StartReturned(s) ==
    /\ jobs[s].pc # "none"
    /\ \A i \in 1..Len(nativeQueue) :
          nativeQueue[i] # NativeCall("startStreaming", s)

-----------------------------------------------------------------------------
(* C34 *)

\* C34: after stop() has called native stopStreaming(sessionId) for the
\* stream's own session id and that call has returned, the native layer
\* emits no further onStreamToken event for that session id, under every
\* interleaving of the cancellation with the running generation.
C34_NoEventAfterStop ==
    [][\A s \in SessionIds : StopReturned(s) => ~EmitsFor(s)]_vars

-----------------------------------------------------------------------------
(* C35 *)

\* C35: once a stream has finished (its isDone=true event has been emitted
\* and its job has ended) and the startStreaming call that launched it has
\* returned, the native registry of active streams (activeStreamJobs on
\* Android, activeStreamTasks on iOS) holds no entry for that session id,
\* under every interleaving of the streaming job with the startStreaming call
\* that registers it.
C35_NoEntryAfterFinish ==
    \A s \in SessionIds :
        (/\ jobs[s].pc = "ended"
         /\ DoneAt(Emitted(s)) # {}
         /\ StartReturned(s)) => s \notin activeStreamJobs

-----------------------------------------------------------------------------
(* C36 *)

\* C36: for each streaming session the native layer emits at most one event
\* with isDone=true, and no event for that session id is emitted after it,
\* on the success path, the model-unavailable path and the error path alike:
\* among the events emitted for a session only the last can be final.
C36_DoneIsLast ==
    \A s \in SessionIds :
        \A i \in DoneAt(Emitted(s)) : i = Len(Emitted(s))

\* a job sent a chunk and then its final event, and has ended
C36_Witness ==
    \E s \in SessionIds :
        /\ jobs[s].pc = "ended"
        /\ Len(Emitted(s)) = 2
        /\ DoneAt(Emitted(s)) = {2}

-----------------------------------------------------------------------------
(* C37 *)

\* startStreaming has run for the session id s: it launched a job, or (iOS
\* below 26) sent the single event of the fallback
NativeStarted(s) == jobs[s].pc # "none" \/ Emitted(s) # <<>>

\* C37: every stream started with startStreaming and never stopped
\* eventually emits an event with isDone=true for its session id, whether
\* generation succeeds, the model is unavailable, or generation fails,
\* assuming the underlying generator eventually finishes or fails.  A stream
\* once stopped stays stopped, so "never stopped" is the other way out.
C37_EventuallyDone ==
    \A s \in SessionIds :
        NativeStarted(s) ~> (DoneAt(Emitted(s)) # {} \/ streams[s].stopped)

\* the generator of a stream that was not stopped failed and the job sent
\* the error as its final event
C37_Witness ==
    \E s \in SessionIds :
        /\ ~streams[s].stopped
        /\ jobs[s].pc = "ended"
        /\ Emitted(s) # <<>>
        /\ Emitted(s)[Len(Emitted(s))].event.isDone
        /\ Emitted(s)[Len(Emitted(s))].event.accumulatedText
              = STREAM_ERROR_TEXT

====
